---- MODULE Spec2Model ----
(***************************************************************************)
(* The benchmark-and-compare pattern of the tutorial scripts:              *)
(*   - intermediate_source/pinmem_nonblock.py: the script as a sequential  *)
(*     program (timer calls, ratios, labels, charts, the GPU->CPU checks)  *)
(*     next to a device that completes asynchronous copies on its own;     *)
(*   - the two benchmark helpers, timer (pinmem_nonblock.py) and           *)
(*     benchmark_resample (beginner_source/resampling.py), as functions of *)
(*     the durations the clock samples;                                    *)
(*   - the timed copy functions of pinmem_nonblock.py, statement by        *)
(*     statement, against the same device;                                 *)
(*   - .jenkins/download_data.py: main and download_url_to_file against    *)
(*     the files at the destination paths and a server;                    *)
(*   - beginner_source/transfer_learning_tutorial.py: train_model and its  *)
(*     learning rate scheduler;                                            *)
(*   - beginner_source/translation_transformer.py: create_mask and         *)
(*     generate_square_subsequent_mask.                                    *)
(* Each has its own specification; the variables of the others stay idle.  *)
(* Time is counted in integer ticks of the clock; a Python float quotient  *)
(* a / b of two such numbers is kept as the fraction in lowest terms, so   *)
(* that two quotients are the same float exactly when they are the same    *)
(* pair.                                                                   *)
(***************************************************************************)
EXTENDS Integers, Sequences, FiniteSets, TLC

VARIABLES
  status,    \* "running" | "aborted" (an exception reached the top level) | "done"
  pc,        \* the statement of pinmem_nonblock.py the interpreter is at
  k,         \* index of the next timer call of the current comparison (or profile call)
  lat,       \* the module-level names that hold timer results (Unset before assignment)
  timed,     \* the scenarios of the current comparison in the order they were timed
  r,         \* the names r1, r2, r3
  chart,     \* the figure handed to plt.show() last
  raised,    \* every exception raised so far: <<[type, at, k]>>, caught or not
  out,       \* what the GPU->CPU checks printed
  i,         \* the loop variable of the GPU->CPU checks
  inflight,  \* asynchronous copies issued to the device and not yet completed
  lastRead,  \* the last host read of cpu_tensor: [loop, i, pending, seen]
  objs,      \* the module-level objects the timed statements read: name -> memory
  samples,   \* the single-call durations the clock sampled for one helper call
  helper,    \* which helper reported: "none" | "timer" | "benchmark_resample"
  reported,  \* what the helper returned, as a fraction <<num, den>>
  op,        \* the timed copy function being executed
  opc,       \* its statement: "call" | "loop" | "sync" | "returned"
  idx,       \* tensors copied so far by the running call
  runs,      \* calls of the timed function completed so far
  FILES_TO_RUN, \* download_data.py: the environment variable, [set, words]
  files,     \* the file at each destination path: its buffers, or Absent
  dpc,       \* the statement of main the interpreter is at
  dl,        \* the running call of download_url_to_file
  opened,    \* the URLs urlopen was called with, over all runs
  called,    \* the download functions main called in this run
  extracted, \* the archives unzip extracted
  dstatus,   \* "idle" | "running" | "aborted" | "done"
  derror,    \* the exception that ended main, or "none"
  history,   \* the calls of download_url_to_file that ended: <<[dst, result]>>
  mainRuns,  \* runs of the script so far
  num_epochs,      \* train_model: its argument
  lr_decay_epoch,  \* the lr_decay_epoch of the scheduler handed to train_model
  optim_scheduler, \* the scheduler handed to train_model
  epoch,     \* the loop variable of train_model
  phase,     \* "idle" | "train" | "val" | "returned"
  model,     \* the parameters of the model being trained (a version number)
  best_model, \* the name best_model: the live model, or a deep copy
  best_acc,  \* the name best_acc, a fraction
  accs,      \* per epoch, the validation accuracy and the parameters it was measured on
  optimizer, \* the optimizer of the current epoch
  lrlog,     \* the learning rate built for each epoch so far
  printed,   \* the epochs at which 'LR is set to' was printed
  result,    \* what train_model returned
  src,       \* translation_transformer.py, create_mask: the source tokens
  tgt,       \* the target tokens
  masks      \* what create_mask returned

benchVars == <<status, pc, k, lat, timed, r, chart, raised, out, i, lastRead, objs>>
timerVars == <<samples, helper, reported>>
opVars == <<op, opc, idx, runs>>
dataVars == <<FILES_TO_RUN, files, dpc, dl, opened, called, extracted, dstatus, derror,
              history, mainRuns>>
trainVars == <<num_epochs, lr_decay_epoch, optim_scheduler, epoch, phase, model, best_model,
               best_acc, accs, optimizer, lrlog, printed, result>>
maskVars == <<src, tgt, masks>>
\* the state of the other scripts
scriptVars == <<dataVars, trainVars, maskVars>>
vars == <<status, pc, k, lat, timed, r, chart, raised, out, i, inflight, lastRead,
          objs, samples, helper, reported, op, opc, idx, runs, scriptVars>>

----------------------------------------------------------------------------
(* Bounds of the model *)

\* the clock samples durations 0..MaxDur ticks
MaxDur == 1
\* a helper call samples 1..MaxSamples durations
MaxSamples == 4
\* tensors in the list handed to a timed copy function
MaxTensors == 3
\* how often the Timer invokes a timed function
MaxRuns == 2
\* buffers in a response body
MaxBuffers == 2
\* runs of download_data.py on the same files
MaxMainRuns == 2
\* num_epochs of train_model
MaxEpochs == 4
\* lr_decay_epoch of the scheduler
MaxDecayEpoch == 2
\* images in the validation set
ValSize == 2
\* tokens in a source or target sequence
MaxLen == 3

----------------------------------------------------------------------------
(* Constants of the programs *)

\* init_lr=0.001 is 1 / 1000, the decay factor 0.1 is 1 / 10
InitLrInverse == 1000
DecayInverse == 10
\* UNK_IDX, PAD_IDX, BOS_IDX, EOS_IDX = 0, 1, 2, 3
PAD_IDX == 1
BOS_IDX == 2

----------------------------------------------------------------------------
(* Values *)

Unset == -1
NoRatio == <<0, 0>>
NoChart == [kind |-> "none"]
NoMasks == [src_mask |-> <<>>, tgt_mask |-> <<>>, src_padding_mask |-> <<>>,
            tgt_padding_mask |-> <<>>]
NoRead == [loop |-> "none", i |-> -1, pending |-> FALSE, seen |-> "none"]

RECURSIVE GCD(_, _)
GCD(a, b) == IF b = 0 THEN a ELSE GCD(b, a % b)

\* the float a / b for a >= 0, b > 0
Quot(a, b) == LET g == GCD(a, b) IN <<a \div g, b \div g>>

\* Python's a / b on floats: ZeroDivisionError for b = 0
ZeroDivision == <<-1, 0>>
PyDivInf(a, b) == IF b = 0 THEN <<1, 0>> ELSE Quot(a, b)
PyDiv(a, b) == IF b = 0 THEN ZeroDivision ELSE Quot(a, b)

\* format(x, ".2f"): x in hundredths, rounded to nearest (ties to even)
Fmt2(x) ==
  LET n == 100 * x[1]
      q == n \div x[2]
      rem == n % x[2]
  IN IF 2 * rem > x[2] THEN q + 1
     ELSE IF 2 * rem < x[2] THEN q
     ELSE IF q % 2 = 0 THEN q ELSE q + 1

----------------------------------------------------------------------------
(* The benchmark helpers *)

RECURSIVE Insert(_, _)
Insert(x, s) ==
  IF s = <<>> THEN <<x>>
  ELSE IF x <= Head(s) THEN <<x>> \o s
  ELSE <<Head(s)>> \o Insert(x, Tail(s))

RECURSIVE Sorted(_)
Sorted(s) == IF s = <<>> THEN <<>> ELSE Insert(Head(s), Sorted(Tail(s)))

RECURSIVE Sum(_)
Sum(s) == IF s = <<>> THEN 0 ELSE Head(s) + Sum(Tail(s))

SampleSeqs == UNION {[1..n -> 0..MaxDur] : n \in 1..MaxSamples}

\* Measurement.median: the 0.5 quantile of the sorted times, the mean of the two
\* middle ones when their number is even
Median(s) ==
  LET t == Sorted(s)
      n == Len(t)
  IN Quot(t[(n + 1) \div 2] + t[(n \div 2) + 1], 2)

\* timer(cmd): the median of the sampled times, times 1000 (a whole number of
\* ticks, the median being a multiple of 1/2)
timerMean(s) == (1000 * Sum(s)) \div Len(s)
timer(s) == LET m == Median(s) IN (1000 * m[1]) \div m[2]

Methods == {"functional", "transforms", "librosa"}

\* benchmark_resample(method, ..., iters): elapsed / iters over the iters calls
\* it times in one stretch; None for a method it does not know
benchmark_resample(method, s) ==
  IF method \in Methods THEN Quot(Sum(s), Len(s)) ELSE NoRatio

\* the values a timer call can return
TimerResults == {timer(s) : s \in SampleSeqs}

----------------------------------------------------------------------------
(* pinmem_nonblock.py, statement by statement *)

PinOrder == <<"pageable_to_device", "pinned_to_device", "pin_mem", "pin_mem_to_device">>
NbOrder == <<"to_device", "to_device_nonblocking">>
GroupedOrder == <<"pin_and_copy", "pin_and_copy_nb", "page_copy", "page_copy_nb",
                  "pinned_copy", "pinned_copy_nb">>
TdOrder == <<"copy_blocking", "copy_non_blocking", "copy_pin_nb", "copy_pin_multithread_nb">>

Range(s) == {s[j] : j \in DOMAIN s}
Names == Range(PinOrder) \cup Range(NbOrder) \cup Range(GroupedOrder) \cup Range(TdOrder)

TimePcs == {"pin_time", "nb_time", "grouped_time", "td_time"}

\* the timer calls of a comparison, in program order
Order(p) ==
  CASE p = "pin_time" -> PinOrder
    [] p = "nb_time" -> NbOrder
    [] p = "grouped_time" -> GroupedOrder
    [] p = "td_time" -> TdOrder

\* the statement that follows the last timer call of a comparison
AfterTiming(p) ==
  CASE p = "pin_time" -> "pin_ratios"
    [] p = "nb_time" -> "nb_ratio"
    [] p = "grouped_time" -> "grouped_chart"
    [] p = "td_time" -> "td_ratios"

NoRatios == [r1 |-> NoRatio, r2 |-> NoRatio, r3 |-> NoRatio]
NoLat == [n \in Names |-> Unset]

\* An exception leaves the statement at pc and nothing catches it: the
\* interpreter prints the traceback and exits. The exception is the one the
\* statement raised; nothing wraps it.
RaiseAndRetry(type) ==
  /\ raised' = Append(raised, [type |-> type, at |-> pc, k |-> k])
  /\ UNCHANGED <<status, pc, k, lat, timed, r, chart, out, i, inflight, lastRead>>
Raise(type) ==
  /\ status' = "aborted"
  /\ raised' = Append(raised, [type |-> type, at |-> pc, k |-> k])
  /\ UNCHANGED <<pc, k, lat, timed, r, chart, out, i, inflight, lastRead>>

\* The module-level objects the timed statements read, each with the memory
\* it lives in: "pageable" | "pinned", or "unbound" before its assignment and
\* after its del.
ObjNames == {"pageable_tensor", "pinned_tensor", "tensors", "tensors_pinned", "td"}
NoObjs == [n \in ObjNames |-> "unbound"]

\* the object the statement timed for a name reads
Reads(name) ==
  CASE name \in {"pageable_to_device", "pin_mem", "pin_mem_to_device"} -> "pageable_tensor"
    [] name = "pinned_to_device" -> "pinned_tensor"
    [] name \in {"to_device", "to_device_nonblocking", "pin_and_copy", "pin_and_copy_nb",
                 "page_copy", "page_copy_nb"} -> "tensors"
    [] name \in {"pinned_copy", "pinned_copy_nb"} -> "tensors_pinned"
    [] name \in Range(TdOrder) -> "td"

\* the statements that call pin_memory() on what they read
Pins(name) == name \in {"pin_mem", "pin_mem_to_device", "pin_and_copy", "pin_and_copy_nb"}

\* x.pin_memory() returns a copy of x in page-locked memory; x stays where it is
pin_memory_inplace(o, n) == [o EXCEPT ![n] = "pinned"]
pin_memory(o, n) == o

\* The objects after the statement timed for a name ran: to() and the copy
\* functions build new tensors and a local result list, and the Timer runs the
\* statement against the module's globals without assigning any of them.
AfterCmd(name, o) == IF Pins(name) THEN pin_memory(o, Reads(name)) ELSE o

\* assert torch.cuda.is_available(); pageable_tensor = torch.randn(...);
\* pinned_tensor = torch.randn(..., pin_memory=True)
Start ==
  /\ status = "running"
  /\ pc = "start"
  /\ \/ /\ pc' = "pin_time"
        /\ objs' = [objs EXCEPT !["pageable_tensor"] = "pageable",
                                !["pinned_tensor"] = "pinned"]
        /\ UNCHANGED <<status, k, lat, timed, r, chart, raised, out, i, inflight, lastRead>>
     \/ Raise("AssertionError") /\ UNCHANGED objs
  /\ UNCHANGED <<timerVars, opVars, scriptVars>>

\* name = timer(cmd): the Timer runs the statement until its estimate is stable
\* and the median is stored; an exception of the statement leaves timer and the
\* script. The names of the comparison before are dead from its first timer call
\* on: the model forgets them there.
TimeScenario ==
  /\ status = "running"
  /\ pc \in TimePcs
  /\ LET name == Order(pc)[k]
         first == (k = 1)
     IN \/ /\ objs[Reads(name)] # "unbound"
           /\ \E m \in TimerResults :
                /\ lat' = [(IF first THEN NoLat ELSE lat) EXCEPT ![name] = m]
                /\ timed' = Append(IF first THEN <<>> ELSE timed, name)
                /\ r' = IF first THEN NoRatios ELSE r
                /\ chart' = IF first THEN NoChart ELSE chart
                /\ IF k < Len(Order(pc))
                     THEN k' = k + 1 /\ pc' = pc
                     ELSE k' = 1 /\ pc' = AfterTiming(pc)
                /\ objs' = AfterCmd(name, objs)
                /\ UNCHANGED <<status, raised, out, i, inflight, lastRead>>
        \/ /\ Raise(IF objs[Reads(name)] = "unbound" THEN "NameError" ELSE "RuntimeError")
           /\ UNCHANGED objs
  /\ UNCHANGED <<timerVars, opVars, scriptVars>>

\* the ratios of the three comparisons
PinR1Inverse(l) == PyDiv(l["pageable_to_device"], l["pinned_to_device"])
PinR1(l) == PyDiv(l["pinned_to_device"], l["pageable_to_device"])
PinR2(l) == PyDiv(l["pin_mem_to_device"], l["pageable_to_device"])
NbR1(l) == PyDiv(l["to_device_nonblocking"], l["to_device"])
TdR1(l) == PyDiv(l["copy_non_blocking"], l["copy_blocking"])
TdR2(l) == PyDiv(l["copy_pin_nb"], l["copy_blocking"])
TdR3(l) == PyDiv(l["copy_pin_multithread_nb"], l["copy_blocking"])

\* "<name> (1x)": the label of the first bar is a literal
BaselineLabelTypo(name) == [name |-> name, x |-> 10, digits |-> 0]
BaselineLabel(name) == [name |-> name, x |-> 100, digits |-> 0]
\* f"<name> ({ratio:4.2f}x)"
RatioLabel(name, ratio) == [name |-> name, x |-> Fmt2(ratio), digits |-> 2]

\* r1 = pinned_to_device / pageable_to_device; r2 = pin_mem_to_device / pageable_to_device
PinRatios ==
  /\ status = "running"
  /\ pc = "pin_ratios"
  /\ IF ZeroDivision \in {PinR1(lat), PinR2(lat)}
       THEN Raise("ZeroDivisionError")
       ELSE /\ r' = [r1 |-> PinR1(lat), r2 |-> PinR2(lat), r3 |-> NoRatio]
            /\ pc' = "pin_chart"
            /\ UNCHANGED <<status, k, lat, timed, chart, raised, out, i, inflight, lastRead>>
  /\ UNCHANGED <<objs, timerVars, opVars, scriptVars>>

\* 100*pin_mem/pin_mem_to_device, the share of pin_memory() in the third label
PinShare(l) == PyDiv(100 * l["pin_mem"], l["pin_mem_to_device"])

PinLabels(l, rr) ==
  << BaselineLabel("pageable_tensor.to(device)"),
     RatioLabel("pinned_tensor.to(device)", rr.r1),
     [name |-> "pageable_tensor.pin_memory().to(device)", x |-> Fmt2(rr.r2), digits |-> 2,
      pct |-> Fmt2(PinShare(l))] >>
PinValuesSwapped(l) == <<l["pinned_to_device"], l["pageable_to_device"], l["pin_mem_to_device"]>>
PinValues(l) == <<l["pageable_to_device"], l["pinned_to_device"], l["pin_mem_to_device"]>>

\* bar_labels, values, ax.bar(...), plt.show(), del pageable_tensor, pinned_tensor.
\* The third label divides by pin_mem_to_device.
PinChart ==
  /\ status = "running"
  /\ pc = "pin_chart"
  /\ IF PinShare(lat) = ZeroDivision
       THEN Raise("ZeroDivisionError")
       ELSE /\ chart' = [kind |-> "pin", title |-> "Device casting runtime (pin-memory)",
                         labels |-> PinLabels(lat, r), values |-> PinValues(lat)]
            /\ pc' = "nb_time"
            /\ UNCHANGED <<status, k, lat, timed, r, raised, out, i, inflight, lastRead>>
  \* del pageable_tensor, pinned_tensor; tensors = [torch.randn(1000) ...]
  /\ objs' = IF status' = "aborted" THEN objs
             ELSE [objs EXCEPT !["pageable_tensor"] = "unbound",
                               !["pinned_tensor"] = "unbound",
                               !["tensors"] = "pageable"]
  /\ UNCHANGED <<timerVars, opVars, scriptVars>>

\* r1 = to_device_nonblocking / to_device
NbRatio ==
  /\ status = "running"
  /\ pc = "nb_ratio"
  /\ IF NbR1(lat) = ZeroDivision
       THEN Raise("ZeroDivisionError")
       ELSE /\ r' = [r EXCEPT !.r1 = NbR1(lat)]
            /\ pc' = "nb_chart"
            /\ UNCHANGED <<status, k, lat, timed, chart, raised, out, i, inflight, lastRead>>
  /\ UNCHANGED <<objs, timerVars, opVars, scriptVars>>

NbLabels(rr) ==
  << BaselineLabel("to(device)"), RatioLabel("to(device, non_blocking=True)", rr.r1) >>
NbValues(l) == <<l["to_device"], l["to_device_nonblocking"]>>

NbChart ==
  /\ status = "running"
  /\ pc = "nb_chart"
  /\ chart' = [kind |-> "nb", title |-> "Device casting runtime (non-blocking)",
               labels |-> NbLabels(r), values |-> NbValues(lat)]
  /\ pc' = "profile"
  /\ UNCHANGED <<status, k, lat, timed, r, raised, out, i, inflight, lastRead>>
  /\ UNCHANGED <<objs, timerVars, opVars, scriptVars>>

\* print(..., profile_mem(cmd)), twice: exec(cmd) under the profiler; an
\* exception of the statement leaves the script. After the second:
\* tensors_pinned = [torch.randn(1000, pin_memory=True) ...]
ProfileMem ==
  /\ status = "running"
  /\ pc = "profile"
  /\ \/ /\ IF k < 2 THEN k' = k + 1 /\ pc' = pc ELSE k' = 1 /\ pc' = "grouped_time"
        /\ objs' = IF k < 2 THEN objs ELSE [objs EXCEPT !["tensors_pinned"] = "pinned"]
        /\ UNCHANGED <<status, lat, timed, r, chart, raised, out, i, inflight, lastRead>>
     \/ Raise("RuntimeError") /\ UNCHANGED objs
  /\ UNCHANGED <<timerVars, opVars, scriptVars>>

strategies == <<"pageable copy", "pinned copy", "pin and copy">>
\* blocking = {"blocking": [...], "non-blocking": [...]}, in insertion order
blocking(l) ==
  << [label |-> "blocking",
      values |-> <<l["page_copy"], l["pinned_copy"], l["pin_and_copy"]>>],
     [label |-> "non-blocking",
      values |-> <<l["page_copy_nb"], l["pinned_copy_nb"], l["pin_and_copy_nb"]>>] >>

\* ax.bar_label(rects, padding=3, fmt="%.2f"): the text over a bar is its
\* height with two decimals (in hundredths)
BarLabelWhole(v) == v
BarLabel(v) == Fmt2(<<v, 1>>)

\* one ax.bar per entry of blocking with the text of each bar, the strategies as
\* tick labels, plt.show(), del tensors, tensors_pinned
GroupedChart ==
  /\ status = "running"
  /\ pc = "grouped_chart"
  /\ chart' = [kind |-> "grouped", title |-> "Runtime (pin-mem and non-blocking)",
               ticks |-> strategies, series |-> blocking(lat),
               texts |-> [s \in DOMAIN blocking(lat) |->
                            [j \in DOMAIN strategies |-> BarLabel(blocking(lat)[s].values[j])]]]
  /\ pc' = "d2h_setup"
  /\ objs' = [objs EXCEPT !["tensors"] = "unbound", !["tensors_pinned"] = "unbound"]
  /\ UNCHANGED <<status, k, lat, timed, r, raised, out, i, inflight, lastRead>>
  /\ UNCHANGED <<timerVars, opVars, scriptVars>>

\* r1, r2, r3 = ... / copy_blocking
TdRatios ==
  /\ status = "running"
  /\ pc = "td_ratios"
  /\ IF ZeroDivision \in {TdR1(lat), TdR2(lat), TdR3(lat)}
       THEN Raise("ZeroDivisionError")
       ELSE /\ r' = [r1 |-> TdR1(lat), r2 |-> TdR2(lat), r3 |-> TdR3(lat)]
            /\ pc' = "td_chart"
            /\ UNCHANGED <<status, k, lat, timed, chart, raised, out, i, inflight, lastRead>>
  /\ UNCHANGED <<objs, timerVars, opVars, scriptVars>>

TdLabels(rr) ==
  << BaselineLabel("Blocking copy"),
     RatioLabel("Non-blocking copy", rr.r1),
     RatioLabel("Blocking pin, non-blocking copy", rr.r2),
     RatioLabel("Non-blocking pin, non-blocking copy", rr.r3) >>
TdValues(l) ==
  <<l["copy_blocking"], l["copy_non_blocking"], l["copy_pin_nb"], l["copy_pin_multithread_nb"]>>

\* the last statements of the script
TdChart ==
  /\ status = "running"
  /\ pc = "td_chart"
  /\ chart' = [kind |-> "td", title |-> "Device casting runtime",
               labels |-> TdLabels(r), values |-> TdValues(lat)]
  /\ pc' = "end"
  /\ status' = "done"
  /\ UNCHANGED <<k, lat, timed, r, raised, out, i, inflight, lastRead>>
  /\ UNCHANGED <<objs, timerVars, opVars, scriptVars>>

----------------------------------------------------------------------------
(* The GPU -> CPU checks and the device *)

\* for i in range(100)
NumIters == 100

\* The device finishes the oldest copy in flight; it does so whenever it gets
\* to it, whatever the host is doing.
DeviceComplete ==
  /\ inflight > 0
  /\ inflight' = inflight - 1
  /\ UNCHANGED <<benchVars, timerVars, opVars, scriptVars>>

\* cpu_tensor.mean() on the host: the data of a finished copy, or, while the
\* copy is in flight, whatever the buffer holds at that moment
Observe(pending) == IF pending = 0 THEN {"complete"} ELSE {"complete", "incomplete"}

\* the {i} of the messages of the except clauses
FailedOrdinal(ii) == ii + 1
FailedIndex(ii) == ii

\* tensor = ...; torch.testing.assert_close(tensor.mean(), ...) on the device;
\* try: i = -1. The names of the comparison before are dead here.
D2HSetup ==
  /\ status = "running"
  /\ pc = "d2h_setup"
  /\ i' = -1
  /\ pc' = "unsync_for"
  /\ lat' = NoLat /\ timed' = <<>> /\ r' = NoRatios /\ chart' = NoChart
  /\ UNCHANGED <<status, k, raised, out, inflight, lastRead>>
  /\ UNCHANGED <<objs, timerVars, opVars, scriptVars>>

\* for i in range(100): cpu_tensor = tensor.to("cpu", non_blocking=True)
UnsyncCopy ==
  /\ status = "running"
  /\ pc = "unsync_for"
  /\ i + 1 < NumIters
  /\ i' = i + 1
  /\ inflight' = inflight + 1
  /\ pc' = "unsync_read"
  /\ UNCHANGED <<status, k, lat, timed, r, chart, raised, out, lastRead>>
  /\ UNCHANGED <<objs, timerVars, opVars, scriptVars>>

\* the loop ran out: print("No test failed with non_blocking")
UnsyncDone ==
  /\ status = "running"
  /\ pc = "unsync_for"
  /\ i + 1 >= NumIters
  /\ out' = Append(out, [msg |-> "No test failed with non_blocking", i |-> -1])
  /\ pc' = "sync_begin"
  /\ UNCHANGED <<status, k, lat, timed, r, chart, raised, i, inflight, lastRead>>
  /\ UNCHANGED <<objs, timerVars, opVars, scriptVars>>

\* torch.testing.assert_close(cpu_tensor.mean(), ...); its AssertionError is
\* caught by the except clause of the loop, which prints and goes on
UnsyncRead ==
  /\ status = "running"
  /\ pc = "unsync_read"
  /\ \E seen \in Observe(inflight) :
       /\ lastRead' = [loop |-> "unsync", i |-> i, pending |-> inflight > 0, seen |-> seen]
       /\ IF seen = "complete"
            THEN /\ pc' = "unsync_for"
                 /\ UNCHANGED <<raised, out>>
            ELSE /\ raised' = Append(raised, [type |-> "AssertionError", at |-> pc, k |-> k])
                 /\ out' = Append(out, [msg |-> "One test failed with non_blocking", i |-> FailedIndex(i)])
                 /\ pc' = "sync_begin"
  /\ UNCHANGED <<status, k, lat, timed, r, chart, i, inflight>>
  /\ UNCHANGED <<objs, timerVars, opVars, scriptVars>>

\* try: i = -1
SyncBegin ==
  /\ status = "running"
  /\ pc = "sync_begin"
  /\ i' = -1
  /\ pc' = "sync_for"
  /\ UNCHANGED <<status, k, lat, timed, r, chart, raised, out, inflight, lastRead>>
  /\ UNCHANGED <<objs, timerVars, opVars, scriptVars>>

\* for i in range(100): cpu_tensor = tensor.to("cpu", non_blocking=True)
SyncCopy ==
  /\ status = "running"
  /\ pc = "sync_for"
  /\ i + 1 < NumIters
  /\ i' = i + 1
  /\ inflight' = inflight + 1
  /\ pc' = "sync_synchronize"
  /\ UNCHANGED <<status, k, lat, timed, r, chart, raised, out, lastRead>>
  /\ UNCHANGED <<objs, timerVars, opVars, scriptVars>>

\* torch.cuda.synchronize(): returns once the device has nothing left to do
SynchronizedNoWait(pending) == TRUE
Synchronized(pending) == pending = 0

SyncSynchronize ==
  /\ status = "running"
  /\ pc = "sync_synchronize"
  /\ Synchronized(inflight)
  /\ pc' = "sync_read"
  /\ UNCHANGED <<status, k, lat, timed, r, chart, raised, out, i, inflight, lastRead>>
  /\ UNCHANGED <<objs, timerVars, opVars, scriptVars>>

\* td = TensorDict({str(i): torch.randn(1_000_000) for i in range(100)})
NewTd(o) == [o EXCEPT !["td"] = "pageable"]

\* torch.testing.assert_close(cpu_tensor.mean(), ...), with its except clause
SyncRead ==
  /\ status = "running"
  /\ pc = "sync_read"
  /\ \E seen \in Observe(inflight) :
       /\ lastRead' = [loop |-> "sync", i |-> i, pending |-> inflight > 0, seen |-> seen]
       /\ IF seen = "complete"
            THEN /\ pc' = "sync_for"
                 /\ UNCHANGED <<raised, out>>
            ELSE /\ raised' = Append(raised, [type |-> "AssertionError", at |-> pc, k |-> k])
                 /\ out' = Append(out, [msg |-> "One test failed with synchronize", i |-> FailedIndex(i)])
                 /\ pc' = "td_time"
  /\ objs' = IF pc' = "td_time" THEN NewTd(objs) ELSE objs
  /\ UNCHANGED <<status, k, lat, timed, r, chart, i, inflight>>
  /\ UNCHANGED <<timerVars, opVars, scriptVars>>

\* the loop ran out: print("No test failed with synchronize")
SyncDone ==
  /\ status = "running"
  /\ pc = "sync_for"
  /\ i + 1 >= NumIters
  /\ out' = Append(out, [msg |-> "No test failed with synchronize", i |-> -1])
  /\ pc' = "td_time"
  /\ objs' = NewTd(objs)
  /\ UNCHANGED <<status, k, lat, timed, r, chart, raised, i, inflight, lastRead>>
  /\ UNCHANGED <<timerVars, opVars, scriptVars>>

----------------------------------------------------------------------------
(* .jenkins/download_data.py *)

\* A file or a response body is the sequence of the buffers u.read(32768)
\* returns for it: a buffer either holds the bytes the published file has at
\* that place ("good") or other bytes ("bad").
Buffers == {"good", "bad"}
Contents == UNION {[1..n -> Buffers] : n \in 0..MaxBuffers}
\* the published file, whose digest the callers pass as sha256
Genuine == <<"good", "good">>
\* no file at a path
Absent == <<"absent">>

\* hashlib.sha256: update(buffer) appends to the hashed bytes, hexdigest() is
\* their digest; two digests are equal exactly when the bytes are
update(sum, buffer) == Append(sum, buffer)
hexdigest(sum) == sum

\* the download functions in the order main calls them
Fns == <<"download_hymenoptera_data", "download_nlp_data", "download_dcgan_data",
         "download_lenet_mnist">>

\* download_url_to_file(url, dst, prefix, sha256) as each function calls it,
\* and the directory it unzips to
Url(fn) ==
  CASE fn = "download_hymenoptera_data" -> "https://download.pytorch.org/tutorial/hymenoptera_data.zip"
    [] fn = "download_nlp_data" -> "https://download.pytorch.org/tutorial/data.zip"
    [] fn = "download_dcgan_data" -> "https://s3.amazonaws.com/pytorch-tutorial-assets/img_align_celeba.zip"
    [] fn = "download_lenet_mnist" -> "https://docs.google.com/uc?export=download&id=1HJV2nUHJqclXQ8flKvcWmjZ-OU5DGatl"
\* dst = dst if dst is not None else Path(url).name; dst = str(prefix / dst)
Dst(fn) ==
  CASE fn = "download_hymenoptera_data" -> "_data/hymenoptera_data.zip"
    [] fn = "download_nlp_data" -> "_data/data.zip"
    [] fn = "download_dcgan_data" -> "_data/img_align_celeba.zip"
    [] fn = "download_lenet_mnist" -> "beginner_source/data/lenet_mnist_model.pth"
NoSha == <<"None">>
Sha256(fn) == hexdigest(Genuine)
UnzipTo(fn) ==
  CASE fn = "download_hymenoptera_data" -> "beginner_source/data"
    [] fn = "download_nlp_data" -> "intermediate_source/data"
    [] fn = "download_dcgan_data" -> "beginner_source/data"
    [] fn = "download_lenet_mnist" -> "none"

Paths == {Dst(Fns[j]) : j \in DOMAIN Fns}

\* FILES_TO_RUN = os.getenv("FILES_TO_RUN"): None, or a string, kept as the
\* sequence of the words it is made of (the empty string, one tutorial, or both
\* in either order)
Words == {"dcgan_faces_tutorial", "fgsm_tutorial"}
Environments ==
  {[set |-> FALSE, words |-> <<>>]} \cup
  {[set |-> TRUE, words |-> w] :
     w \in {v \in UNION {[1..n -> Words] : n \in 0..Cardinality(Words)} :
             \A a, b \in DOMAIN v : v[a] = v[b] => a = b}}

\* word in FILES_TO_RUN, for a string FILES_TO_RUN
In(word, str) == \E j \in DOMAIN str : str[j] = word

\* FILES_TO_RUN is None or "<tutorial>" in FILES_TO_RUN; the first two
\* functions are called without a condition
Tutorial(fn) ==
  CASE fn = "download_dcgan_data" -> "dcgan_faces_tutorial"
    [] fn = "download_lenet_mnist" -> "fgsm_tutorial"
    [] OTHER -> "none"
ShouldRunIfListed(fn, env) == Tutorial(fn) = "none" \/ (env.set /\ In(Tutorial(fn), env.words))
ShouldRun(fn, env) == Tutorial(fn) = "none" \/ ~env.set \/ In(Tutorial(fn), env.words)

\* Path(dst).exists()
ExistsNonEmpty(f, dst) == f[dst] \notin {Absent, <<>>}
Exists(f, dst) == f[dst] # Absent

\* Path(dst).unlink()
UnlinkNothing(f, dst) == f
Unlink(f, dst) == [f EXCEPT ![dst] = Absent]

NoCall == [at |-> "idle", fn |-> "none", dst |-> "none", sha256 |-> NoSha,
           u |-> <<>>, sum |-> <<>>]

\* an exception leaves download_url_to_file, the download function and main:
\* nothing in the script catches it
DataRaise(type) ==
  /\ dstatus' = "aborted"
  /\ derror' = type
  /\ dl' = [dl EXCEPT !.at = "raised"]

\* the statement of main after the call of Fns[j]
AfterFn(fn) ==
  CASE fn = "download_hymenoptera_data" -> "download_nlp_data"
    [] fn = "download_nlp_data" -> "download_dcgan_data"
    [] fn = "download_dcgan_data" -> "download_lenet_mnist"
    [] fn = "download_lenet_mnist" -> "end"

\* DATA_DIR.mkdir(exist_ok=True) and the four other mkdir
MainMkdir ==
  /\ dstatus = "running"
  /\ dpc = "mkdir"
  /\ dpc' = Fns[1]
  /\ UNCHANGED <<FILES_TO_RUN, files, dl, opened, called, extracted, dstatus, derror,
                 history, mainRuns>>
  /\ UNCHANGED <<benchVars, inflight, timerVars, opVars, trainVars, maskVars>>

\* a statement of main that calls a download function, under its condition;
\* the function calls download_url_to_file first
MainCall(fn) ==
  /\ dstatus = "running"
  /\ dpc = fn
  /\ dl.at = "idle"
  /\ IF ShouldRun(fn, FILES_TO_RUN)
       THEN /\ called' = Append(called, fn)
            /\ dl' = [at |-> "exists", fn |-> fn, dst |-> Dst(fn), sha256 |-> Sha256(fn),
                      u |-> <<>>, sum |-> <<>>]
            /\ UNCHANGED dpc
       ELSE /\ dpc' = AfterFn(fn)
            /\ UNCHANGED <<called, dl>>
  /\ UNCHANGED <<FILES_TO_RUN, files, opened, extracted, dstatus, derror, history, mainRuns>>
  /\ UNCHANGED <<benchVars, inflight, timerVars, opVars, trainVars, maskVars>>

MainHymenoptera == MainCall("download_hymenoptera_data")
MainNlp == MainCall("download_nlp_data")
MainDcgan == MainCall("download_dcgan_data")
MainLenet == MainCall("download_lenet_mnist")

\* if Path(dst).exists(): print("Skip downloading ..."); return Path(dst)
DlExists ==
  /\ dstatus = "running"
  /\ dl.at = "exists"
  /\ IF Exists(files, dl.dst)
       THEN /\ dl' = [dl EXCEPT !.at = "returned"]
            /\ history' = Append(history, [dst |-> dl.dst, result |-> "skipped"])
       ELSE /\ dl' = [dl EXCEPT !.at = "urlopen"]
            /\ UNCHANGED history
  /\ UNCHANGED <<FILES_TO_RUN, files, dpc, opened, called, extracted, dstatus, derror, mainRuns>>
  /\ UNCHANGED <<benchVars, inflight, timerVars, opVars, trainVars, maskVars>>

\* u = urlopen(Request(url, ...)): the server answers with some body, or the
\* request fails
DlUrlopen ==
  /\ dstatus = "running"
  /\ dl.at = "urlopen"
  /\ opened' = Append(opened, Url(dl.fn))
  /\ \E body \in Contents, ok \in BOOLEAN :
       IF ok
         THEN /\ dl' = [dl EXCEPT !.at = "open", !.u = body]
              /\ UNCHANGED <<dstatus, derror, history>>
         ELSE /\ body = <<>>
              /\ DataRaise("URLError")
              /\ history' = Append(history, [dst |-> dl.dst, result |-> "failed"])
  /\ UNCHANGED <<FILES_TO_RUN, files, dpc, called, extracted, mainRuns>>
  /\ UNCHANGED <<benchVars, inflight, timerVars, opVars, trainVars, maskVars>>

\* sha256_sum = hashlib.sha256(); with open(dst, "wb") as f:
DlOpenFile ==
  /\ dstatus = "running"
  /\ dl.at = "open"
  /\ files' = [files EXCEPT ![dl.dst] = <<>>]
  /\ dl' = [dl EXCEPT !.at = "read", !.sum = <<>>]
  /\ UNCHANGED <<FILES_TO_RUN, dpc, opened, called, extracted, dstatus, derror, history, mainRuns>>
  /\ UNCHANGED <<benchVars, inflight, timerVars, opVars, trainVars, maskVars>>

\* buffer = u.read(32768); if len(buffer) == 0: break;
\* sha256_sum.update(buffer); f.write(buffer). The connection can break in
\* read, which leaves what was written so far at dst.
DlRead ==
  /\ dstatus = "running"
  /\ dl.at = "read"
  /\ \E ok \in BOOLEAN :
       IF ok
         THEN /\ IF dl.u = <<>>
                   THEN /\ dl' = [dl EXCEPT !.at = "digest"]
                        /\ UNCHANGED files
                   ELSE /\ dl' = [dl EXCEPT !.u = Tail(dl.u), !.sum = update(dl.sum, Head(dl.u))]
                        /\ files' = [files EXCEPT ![dl.dst] = Append(files[dl.dst], Head(dl.u))]
              /\ UNCHANGED <<dstatus, derror, history>>
         ELSE /\ dl.u # <<>>
              /\ DataRaise("OSError")
              /\ history' = Append(history, [dst |-> dl.dst, result |-> "failed"])
              /\ UNCHANGED files
  /\ UNCHANGED <<FILES_TO_RUN, dpc, opened, called, extracted, mainRuns>>
  /\ UNCHANGED <<benchVars, inflight, timerVars, opVars, trainVars, maskVars>>

\* digest = sha256_sum.hexdigest(); if sha256 is not None and sha256 != digest:
\* Path(dst).unlink(); raise RuntimeError(...); else print, return Path(dst)
DlDigest ==
  /\ dstatus = "running"
  /\ dl.at = "digest"
  /\ IF dl.sha256 # NoSha /\ dl.sha256 # hexdigest(dl.sum)
       THEN /\ files' = Unlink(files, dl.dst)
            /\ DataRaise("RuntimeError")
            /\ history' = Append(history, [dst |-> dl.dst, result |-> "mismatch"])
       ELSE /\ dl' = [dl EXCEPT !.at = "returned"]
            /\ history' = Append(history, [dst |-> dl.dst, result |-> "downloaded"])
            /\ UNCHANGED <<files, dstatus, derror>>
  /\ UNCHANGED <<FILES_TO_RUN, dpc, opened, called, extracted, mainRuns>>
  /\ UNCHANGED <<benchVars, inflight, timerVars, opVars, trainVars, maskVars>>

\* back in the download function: unzip(z, ...) where the function has one.
\* ZipFile raises BadZipFile on a file that is no archive; a file other than
\* the published one may or may not be one.
DlReturn ==
  /\ dstatus = "running"
  /\ dl.at = "returned"
  /\ IF UnzipTo(dl.fn) = "none"
       THEN /\ dl' = NoCall
            /\ dpc' = AfterFn(dl.fn)
            /\ UNCHANGED <<extracted, dstatus, derror>>
       ELSE \E ok \in BOOLEAN :
              IF ok \/ files[dl.dst] = Genuine
                THEN /\ ok
                     /\ extracted' = extracted \cup {<<dl.dst, UnzipTo(dl.fn)>>}
                     /\ dl' = NoCall
                     /\ dpc' = AfterFn(dl.fn)
                     /\ UNCHANGED <<dstatus, derror>>
                ELSE /\ DataRaise("BadZipFile")
                     /\ UNCHANGED <<extracted, dpc>>
  /\ UNCHANGED <<FILES_TO_RUN, files, opened, called, history, mainRuns>>
  /\ UNCHANGED <<benchVars, inflight, timerVars, opVars, trainVars, maskVars>>

\* main returns
MainEnd ==
  /\ dstatus = "running"
  /\ dpc = "end"
  /\ dstatus' = "done"
  /\ UNCHANGED <<FILES_TO_RUN, files, dpc, dl, opened, called, extracted, derror,
                 history, mainRuns>>
  /\ UNCHANGED <<benchVars, inflight, timerVars, opVars, trainVars, maskVars>>

\* the script is run again, in the same environment and on the files the run
\* before left
Rerun ==
  /\ dstatus \in {"done", "aborted"}
  /\ mainRuns < MaxMainRuns
  /\ mainRuns' = mainRuns + 1
  /\ dstatus' = "running"
  /\ derror' = "none"
  /\ dpc' = "mkdir"
  /\ dl' = NoCall
  /\ called' = <<>>
  /\ UNCHANGED <<FILES_TO_RUN, files, opened, extracted, history>>
  /\ UNCHANGED <<benchVars, inflight, timerVars, opVars, trainVars, maskVars>>

IdleData ==
  /\ FILES_TO_RUN = [set |-> FALSE, words |-> <<>>]
  /\ files = [p \in Paths |-> Absent]
  /\ dpc = "mkdir"
  /\ dl = NoCall
  /\ opened = <<>>
  /\ called = <<>>
  /\ extracted = {}
  /\ dstatus = "idle"
  /\ derror = "none"
  /\ history = <<>>
  /\ mainRuns = 0


----------------------------------------------------------------------------
(* beginner_source/transfer_learning_tutorial.py: train_model and its
   learning rate scheduler *)

\* Products and powers of Python floats, kept as fractions in lowest terms
Mul(a, b) == Quot(a[1] * b[1], a[2] * b[2])
RECURSIVE Pow(_, _)
Pow(a, n) == IF n = 0 THEN <<1, 1>> ELSE Mul(a, Pow(a, n - 1))
Gt(a, b) == a[1] * b[2] > b[1] * a[2]

\* the default init_lr=0.001 and the decay factor 0.1
init_lr == <<1, InitLrInverse>>
Decay == <<1, DecayInverse>>

Schedulers == {"optim_scheduler_ft", "optim_scheduler_conv"}

\* lr = init_lr * (0.1**(epoch // lr_decay_epoch))
LrOfEpochNumber(e, decay_epoch) == Mul(init_lr, Pow(Decay, e))
Lr(e, decay_epoch) == Mul(init_lr, Pow(Decay, e \div decay_epoch))

\* if epoch % lr_decay_epoch == 0: print('LR is set to {}'.format(lr))
Prints(e, decay_epoch) == e % decay_epoch = 0

\* optim.SGD(model.parameters(), lr=lr, momentum=0.9) for optim_scheduler_ft,
\* optim.SGD(model.fc.parameters(), ...) for optim_scheduler_conv
SGD(scheduler, lr) ==
  [params |-> IF scheduler = "optim_scheduler_ft" THEN "model.parameters()"
              ELSE "model.fc.parameters()",
   lr |-> lr]
NoOptimizer == [params |-> "none", lr |-> NoRatio]

\* A model object: the live one handed to train_model (its parameters are the
\* variable model), or a deep copy that keeps the parameters it was made with
Live == [copy |-> FALSE, wts |-> 0]
NoModel == [copy |-> FALSE, wts |-> -1]
deepcopy(wts) == [copy |-> TRUE, wts |-> wts]

\* the parameters of a model object
Wts(m) == IF m.copy THEN m.wts ELSE model

\* epoch_acc = running_corrects / dset_sizes[phase]
EpochAcc(corrects) == Quot(corrects, ValSize)

\* the train phase of an epoch: optimizer = optim_scheduler(model, epoch), then
\* loss.backward(); optimizer.step() over the training set, which moves the
\* parameters of model
TrainPhase ==
  /\ phase = "train"
  /\ epoch < num_epochs
  /\ optimizer' = SGD(optim_scheduler, Lr(epoch, lr_decay_epoch))
  /\ lrlog' = Append(lrlog, Lr(epoch, lr_decay_epoch))
  /\ printed' = IF Prints(epoch, lr_decay_epoch) THEN Append(printed, epoch) ELSE printed
  /\ model' = model + 1
  /\ phase' = "val"
  /\ UNCHANGED <<num_epochs, lr_decay_epoch, optim_scheduler, epoch, best_model, best_acc,
                 accs, result>>
  /\ UNCHANGED <<benchVars, inflight, timerVars, opVars, dataVars, maskVars>>

\* the val phase of an epoch: the accuracy over the validation set, and
\* if phase == 'val' and epoch_acc > best_acc: best_acc = epoch_acc;
\* best_model = copy.deepcopy(model)
ValPhase ==
  /\ phase = "val"
  /\ \E corrects \in 0..ValSize :
       LET epoch_acc == EpochAcc(corrects)
       IN /\ accs' = Append(accs, [acc |-> epoch_acc, wts |-> model])
          /\ IF Gt(epoch_acc, best_acc)
               THEN best_acc' = epoch_acc /\ best_model' = deepcopy(model)
               ELSE UNCHANGED <<best_acc, best_model>>
  /\ epoch' = epoch + 1
  /\ phase' = "train"
  /\ UNCHANGED <<num_epochs, lr_decay_epoch, optim_scheduler, model, optimizer, lrlog,
                 printed, result>>
  /\ UNCHANGED <<benchVars, inflight, timerVars, opVars, dataVars, maskVars>>

\* the loop ran out: return best_model
TrainReturn ==
  /\ phase = "train"
  /\ epoch = num_epochs
  /\ result' = best_model
  /\ phase' = "returned"
  /\ UNCHANGED <<num_epochs, lr_decay_epoch, optim_scheduler, epoch, model, best_model,
                 best_acc, accs, optimizer, lrlog, printed>>
  /\ UNCHANGED <<benchVars, inflight, timerVars, opVars, dataVars, maskVars>>

IdleTrain ==
  /\ num_epochs = 0
  /\ lr_decay_epoch = 1
  /\ optim_scheduler = "none"
  /\ epoch = 0
  /\ phase = "idle"
  /\ model = 0
  /\ best_model = NoModel
  /\ best_acc = <<0, 1>>
  /\ accs = <<>>
  /\ optimizer = NoOptimizer
  /\ lrlog = <<>>
  /\ printed = <<>>
  /\ result = NoModel

IdleMask == src = <<>> /\ tgt = <<>> /\ masks = NoMasks

IdleScripts == IdleData /\ IdleTrain /\ IdleMask

----------------------------------------------------------------------------
(* The run of pinmem_nonblock.py *)

IdleTimer == samples = <<>> /\ helper = [name |-> "none", method |-> "none"] /\ reported = NoRatio
IdleOp == op = "none" /\ opc = "idle" /\ idx = 0 /\ runs = 0

Init ==
  /\ status = "running"
  /\ pc = "start"
  /\ k = 1
  /\ lat = NoLat
  /\ timed = <<>>
  /\ r = NoRatios
  /\ chart = NoChart
  /\ raised = <<>>
  /\ out = <<>>
  /\ i = -1
  /\ inflight = 0
  /\ lastRead = NoRead
  /\ objs = NoObjs
  /\ IdleTimer
  /\ IdleOp
  /\ IdleScripts

Next ==
  \/ Start
  \/ TimeScenario
  \/ PinRatios
  \/ PinChart
  \/ NbRatio
  \/ NbChart
  \/ ProfileMem
  \/ GroupedChart
  \/ D2HSetup
  \/ UnsyncCopy
  \/ UnsyncRead
  \/ UnsyncDone
  \/ SyncBegin
  \/ SyncCopy
  \/ SyncSynchronize
  \/ SyncRead
  \/ SyncDone
  \/ TdRatios
  \/ TdChart
  \/ DeviceComplete

Spec == Init /\ [][Next]_vars

----------------------------------------------------------------------------
(* One call of a benchmark helper on the durations the clock sampled *)

NoHelper == [name |-> "none", method |-> "none"]

\* timer(cmd) of pinmem_nonblock.py
CallTimer ==
  /\ helper = NoHelper
  /\ helper' = [name |-> "timer", method |-> "none"]
  /\ reported' = <<timer(samples), 1>>
  /\ UNCHANGED <<samples, benchVars, inflight, opVars, scriptVars>>

\* benchmark_resample(method, ..., iters=Len(samples)) of resampling.py
CallBenchmarkResample ==
  /\ helper = NoHelper
  /\ \E method \in Methods \cup {"other"} :
       /\ helper' = [name |-> "benchmark_resample", method |-> method]
       /\ reported' = benchmark_resample(method, samples)
  /\ UNCHANGED <<samples, benchVars, inflight, opVars, scriptVars>>

IdleBench ==
  /\ status = "running" /\ pc = "start" /\ k = 1 /\ lat = NoLat /\ timed = <<>>
  /\ r = NoRatios /\ chart = NoChart /\ raised = <<>> /\ out = <<>> /\ i = -1
  /\ lastRead = NoRead /\ objs = NoObjs

InitTimer ==
  /\ IdleBench
  /\ inflight = 0
  /\ IdleOp
  /\ samples \in SampleSeqs
  /\ helper = NoHelper
  /\ reported = NoRatio
  /\ IdleScripts

NextTimer == CallTimer \/ CallBenchmarkResample

SpecTimer == InitTimer /\ [][NextTimer]_vars

----------------------------------------------------------------------------
(* The timed copy functions, run by the Timer against the device *)

BlockingOps == {"copy_to_device", "pin_copy_to_device"}
NonBlockingOps == {"copy_to_device_nonblocking", "pin_copy_to_device_nonblocking"}
Ops == BlockingOps \cup NonBlockingOps

\* what follows the for loop of a copy function: torch.cuda.synchronize() in
\* the non_blocking ones, return result in the others
AfterLoopNoSync(o) == "returned"
AfterLoop(o) == IF o \in NonBlockingOps THEN "sync" ELSE "returned"

\* the Timer calls the function: result = []
OpCall ==
  /\ opc = "call"
  /\ runs < MaxRuns
  /\ idx' = 0
  /\ opc' = "loop"
  /\ UNCHANGED <<op, runs, inflight, benchVars, timerVars, scriptVars>>

\* result.append(tensor.to("cuda:0"[, non_blocking=True])), after
\* tensor.pin_memory() in the pin_ functions (which the host does itself): the
\* copy is handed to the device; without non_blocking the host waits for it
OpCopy ==
  /\ opc = "loop"
  /\ idx < MaxTensors
  /\ inflight' = inflight + 1
  /\ IF op \in NonBlockingOps
       THEN idx' = idx + 1 /\ opc' = "loop"
       ELSE idx' = idx /\ opc' = "wait"
  /\ UNCHANGED <<op, runs, benchVars, timerVars, scriptVars>>

\* the end of a blocking tensor.to("cuda:0")
OpWait ==
  /\ opc = "wait"
  /\ Synchronized(inflight)
  /\ idx' = idx + 1
  /\ opc' = "loop"
  /\ UNCHANGED <<op, runs, inflight, benchVars, timerVars, scriptVars>>

\* the for loop is over
OpLoopEnd ==
  /\ opc = "loop"
  /\ idx = MaxTensors
  /\ opc' = AfterLoop(op)
  /\ UNCHANGED <<op, idx, runs, inflight, benchVars, timerVars, scriptVars>>

\* torch.cuda.synchronize()
OpSync ==
  /\ opc = "sync"
  /\ Synchronized(inflight)
  /\ opc' = "returned"
  /\ UNCHANGED <<op, idx, runs, inflight, benchVars, timerVars, scriptVars>>

\* return result: the Timer stops the clock and may call again
OpReturn ==
  /\ opc = "returned"
  /\ runs' = runs + 1
  /\ opc' = "call"
  /\ UNCHANGED <<op, idx, inflight, benchVars, timerVars, scriptVars>>

InitOps ==
  /\ IdleBench
  /\ IdleTimer
  /\ inflight = 0
  /\ op \in Ops
  /\ opc = "call"
  /\ idx = 0
  /\ runs = 0
  /\ IdleScripts

NextOps == OpCall \/ OpCopy \/ OpWait \/ OpLoopEnd \/ OpSync \/ OpReturn \/ DeviceComplete

SpecOps == InitOps /\ [][NextOps]_vars

----------------------------------------------------------------------------
(* A run of download_data.py, and the runs after it *)

\* the files the first run can find: none, or the published one
InitData ==
  /\ IdleBench
  /\ inflight = 0
  /\ IdleTimer
  /\ IdleOp
  /\ IdleTrain
  /\ IdleMask
  /\ FILES_TO_RUN \in Environments
  /\ files \in [Paths -> {Absent, Genuine}]
  /\ dpc = "mkdir"
  /\ dl = NoCall
  /\ opened = <<>>
  /\ called = <<>>
  /\ extracted = {}
  /\ dstatus = "running"
  /\ derror = "none"
  /\ history = <<>>
  /\ mainRuns = 1

NextData ==
  \/ MainMkdir
  \/ MainHymenoptera
  \/ MainNlp
  \/ MainDcgan
  \/ MainLenet
  \/ DlExists
  \/ DlUrlopen
  \/ DlOpenFile
  \/ DlRead
  \/ DlDigest
  \/ DlReturn
  \/ MainEnd
  \/ Rerun

SpecData == InitData /\ [][NextData]_vars

----------------------------------------------------------------------------
(* A call of train_model(model, criterion, optim_scheduler, num_epochs) *)

\* best_model = model; best_acc = 0.0. The scheduler handed in is one of the
\* two of the tutorial, with some lr_decay_epoch.
InitTrain ==
  /\ IdleBench
  /\ inflight = 0
  /\ IdleTimer
  /\ IdleOp
  /\ IdleData
  /\ IdleMask
  /\ num_epochs \in 0..MaxEpochs
  /\ lr_decay_epoch \in 1..MaxDecayEpoch
  /\ optim_scheduler \in Schedulers
  /\ epoch = 0
  /\ phase = "train"
  /\ model = 0
  /\ best_model = Live
  /\ best_acc = <<0, 1>>
  /\ accs = <<>>
  /\ optimizer = NoOptimizer
  /\ lrlog = <<>>
  /\ printed = <<>>
  /\ result = NoModel

NextTrain == TrainPhase \/ ValPhase \/ TrainReturn

SpecTrain == InitTrain /\ [][NextTrain]_vars

----------------------------------------------------------------------------
(* beginner_source/translation_transformer.py: the masks *)

\* A tensor of shape (n, m) is a function of <<row, column>>, counted from 0;
\* floats are "0.0", "1.0" and "-inf", booleans TRUE and FALSE.
Idx(n) == 0..(n - 1)

\* torch.ones((n, m)), torch.zeros((n, m)).type(torch.bool)
ones(n, m) == [x \in Idx(n) \X Idx(m) |-> "1.0"]
zeros_bool(n, m) == [x \in Idx(n) \X Idx(m) |-> FALSE]

\* torch.triu(t): the entries below the diagonal become 0
triu(t) == [x \in DOMAIN t |-> IF x[2] >= x[1] THEN t[x] ELSE "0.0"]

\* t == v for a tensor of floats or of token indices; t == 0 and t == 1 for a
\* tensor of booleans, where False equals 0 and True equals 1
eq(t, v) == [x \in DOMAIN t |-> t[x] = v]
eq_bool(t, n) == [x \in DOMAIN t |-> t[x] = (n = 1)]

\* t.transpose(0, 1)
transposeNot(t) == t
transpose(t) == [x \in {<<y[2], y[1]>> : y \in DOMAIN t} |-> t[<<x[2], x[1]>>]]

\* t.float() for a tensor of booleans
float(t) == [x \in DOMAIN t |-> IF t[x] THEN "1.0" ELSE "0.0"]

\* t.masked_fill(cond, v)
masked_fill(t, cond, v) == [x \in DOMAIN t |-> IF cond[x] THEN v ELSE t[x]]

\* mask = (torch.triu(torch.ones((sz, sz))) == 1).transpose(0, 1)
\* mask = mask.float().masked_fill(mask == 0, float('-inf')).masked_fill(mask == 1, float(0.0))
generate_square_subsequent_mask(sz) ==
  LET mask == transpose(eq(triu(ones(sz, sz)), "1.0"))
  IN masked_fill(masked_fill(float(mask), eq_bool(mask, 0), "-inf"), eq_bool(mask, 1), "0.0")

\* a batch of one sequence of tokens as a tensor of shape (len, 1)
Batch(s) == [x \in Idx(Len(s)) \X Idx(1) |-> s[x[1] + 1]]

create_mask(s, t) ==
  LET src_seq_len == Len(s)
      tgt_seq_len == Len(t)
  IN [src_mask |-> zeros_bool(src_seq_len, src_seq_len),
      tgt_mask |-> generate_square_subsequent_mask(tgt_seq_len),
      src_padding_mask |-> transpose(eq(Batch(s), PAD_IDX)),
      tgt_padding_mask |-> transpose(eq(Batch(t), PAD_IDX))]

\* src_mask, tgt_mask, src_padding_mask, tgt_padding_mask = create_mask(src, tgt_input)
CreateMask ==
  /\ src # <<>>
  /\ masks = NoMasks
  /\ masks' = create_mask(src, tgt)
  /\ UNCHANGED <<src, tgt>>
  /\ UNCHANGED <<benchVars, inflight, timerVars, opVars, dataVars, trainVars>>

Tokens == {PAD_IDX, BOS_IDX}
TokenSeqs == UNION {[1..n -> Tokens] : n \in 1..MaxLen}

InitMask ==
  /\ IdleBench
  /\ inflight = 0
  /\ IdleTimer
  /\ IdleOp
  /\ IdleData
  /\ IdleTrain
  /\ src \in TokenSeqs
  /\ tgt \in TokenSeqs
  /\ masks = NoMasks

NextMask == CreateMask

SpecMask == InitMask /\ [][NextMask]_vars


----------------------------------------------------------------------------
(* What the claims speak of *)

Last(s) == s[Len(s)]

\* the comparison whose timer calls are under way or done
Cmp ==
  IF timed = <<>> THEN "none"
  ELSE CASE Head(timed) = "pageable_to_device" -> "pin"
         [] Head(timed) = "to_device" -> "nb"
         [] Head(timed) = "pin_and_copy" -> "grouped"
         [] Head(timed) = "copy_blocking" -> "td"

\* the kind of chart a comparison ends with
KindOf(p) ==
  CASE p = "pin_time" -> "pin"
    [] p = "nb_time" -> "nb"
    [] p = "grouped_time" -> "grouped"
    [] p = "td_time" -> "td"

RatioCharts == {"pin", "nb", "td"}

\* the scenario whose latency is the baseline of a comparison with ratios
BaselineOf(c) ==
  CASE c = "pin" -> "pageable_to_device"
    [] c = "nb" -> "to_device"
    [] c = "td" -> "copy_blocking"

\* q is the quotient a / b, stated without the reduction to lowest terms
IsQuotient(q, a, b) == b > 0 /\ q[2] > 0 /\ q[1] * b = q[2] * a

\* x hundredths is a / b rounded to two decimals
IsRounded(x, a, b) == b > 0 /\ 2 * (100 * a - x * b) <= b /\ 2 * (x * b - 100 * a) <= b

\* C1: every ratio of a comparison is the scenario's latency over the latency of
\* the comparison's baseline (variant / baseline), the baseline being the first
\* bar of the chart, and that is the ratio each label of the chart shows.
C1_RatioIsVariantOverBaseline ==
  /\ (Cmp = "pin" /\ r # NoRatios) =>
       /\ IsQuotient(r.r1, lat["pinned_to_device"], lat["pageable_to_device"])
       /\ IsQuotient(r.r2, lat["pin_mem_to_device"], lat["pageable_to_device"])
  /\ (Cmp = "nb" /\ r # NoRatios) =>
       IsQuotient(r.r1, lat["to_device_nonblocking"], lat["to_device"])
  /\ (Cmp = "td" /\ r # NoRatios) =>
       /\ IsQuotient(r.r1, lat["copy_non_blocking"], lat["copy_blocking"])
       /\ IsQuotient(r.r2, lat["copy_pin_nb"], lat["copy_blocking"])
       /\ IsQuotient(r.r3, lat["copy_pin_multithread_nb"], lat["copy_blocking"])
  /\ chart.kind \in RatioCharts =>
       /\ chart.values[1] = lat[BaselineOf(chart.kind)]
       /\ \A j \in 2..Len(chart.values) :
            IsRounded(chart.labels[j].x, chart.values[j], chart.values[1])

\* a pin-memory chart whose second bar is half the first: variant / baseline is
\* 0.50 where baseline / variant would be 2.00
C1_Witness ==
  /\ chart.kind = "pin"
  /\ chart.values[1] = 1000 /\ chart.values[2] = 500
  /\ chart.labels[2].x = 50

\* C2: in every chart that shows ratios the baseline is positive and the label
\* of its bar, the first one, shows 1x, which is baseline / baseline exactly.
C2_BaselineRatioIsOne ==
  chart.kind \in RatioCharts =>
    /\ chart.values[1] > 0
    /\ chart.labels[1].x * chart.values[1] = 100 * chart.values[1]
    /\ chart.labels[1].digits = 0

C2_Witness ==
  /\ chart.kind = "td"
  /\ chart.values[1] = 500
  /\ chart.labels[1].x = 100

TimerFailed == raised # <<>> /\ Last(raised).at \in TimePcs

\* after the failure e of a timer call: the run has ended at that call, the
\* failing scenario and those after it have no measurement, the ones before it
\* have theirs, and the comparison has no ratio and no chart
FailFast(e) ==
  LET ord == Order(e.at)
  IN /\ status = "aborted"
     /\ pc = e.at /\ k = e.k
     /\ IF e.k > 1
          THEN /\ timed = SubSeq(ord, 1, e.k - 1)
               /\ \A j \in 1..Len(ord) : (lat[ord[j]] = Unset) <=> (j >= e.k)
               /\ r = NoRatios
               /\ chart = NoChart
          ELSE /\ Cmp # KindOf(e.at)
               /\ \A j \in 1..Len(ord) : lat[ord[j]] = Unset
               /\ chart.kind # KindOf(e.at)

\* C3 as claimed: when the operation of a scenario raises while it is timed, the
\* run fails with ScenarioFailed(name) for that scenario, no later scenario is
\* timed and the comparison has no measurement list, ratio or chart.
C3_ErrorIsScenarioFailed ==
  TimerFailed =>
    /\ Last(raised).type = "ScenarioFailed"
    /\ FailFast(Last(raised))

\* C3, amended: when the operation of a scenario raises while it is timed, the
\* run ends there with that exception itself (nothing wraps it in an error that
\* names the scenario); no later scenario is timed and the comparison has no
\* ratio and no chart.
C3_TimerFailureEndsTheRun ==
  TimerFailed =>
    /\ Last(raised).type = "RuntimeError"
    /\ FailFast(Last(raised))

\* the second scenario of the pin-memory comparison fails: the first is measured
C3_Witness ==
  /\ TimerFailed
  /\ Last(raised).at = "pin_time" /\ Last(raised).k = 2
  /\ lat["pageable_to_device"] = 500

RatioPc(c) ==
  CASE c = "pin" -> "pin_ratios"
    [] c = "nb" -> "nb_ratio"
    [] c = "td" -> "td_ratios"

\* C4: a comparison whose baseline latency is 0 never gets past the statement
\* that computes its ratios: that statement ends the run with
\* ZeroDivisionError, and no ratio and no chart of the comparison exist.
\* Ratios exist only with a baseline latency > 0.
C4_ZeroBaselineFails ==
  /\ \A c \in RatioCharts :
       (Cmp = c /\ lat[BaselineOf(c)] = 0) =>
         /\ r = NoRatios
         /\ chart = NoChart
         /\ pc = RatioPc(c) \/ (pc \in TimePcs /\ KindOf(pc) = c)
         /\ (pc = RatioPc(c) /\ status = "aborted") =>
              Last(raised) = [type |-> "ZeroDivisionError", at |-> pc, k |-> 1]
  /\ (Cmp \in RatioCharts /\ r # NoRatios) => lat[BaselineOf(Cmp)] > 0

C4_Witness ==
  /\ Cmp = "td"
  /\ lat["copy_blocking"] = 0
  /\ lat["copy_non_blocking"] = 500
  /\ status = "aborted"
  /\ Last(raised).type = "ZeroDivisionError"

\* the smallest sample with at least half of the samples at or below it, and the
\* largest with at least half at or above it
LowerMiddle(s) ==
  CHOOSE v \in Range(s) :
    /\ 2 * Cardinality({j \in DOMAIN s : s[j] <= v}) >= Len(s)
    /\ \A w \in Range(s) :
         2 * Cardinality({j \in DOMAIN s : s[j] <= w}) >= Len(s) => v <= w
UpperMiddle(s) ==
  CHOOSE v \in Range(s) :
    /\ 2 * Cardinality({j \in DOMAIN s : s[j] >= v}) >= Len(s)
    /\ \A w \in Range(s) :
         2 * Cardinality({j \in DOMAIN s : s[j] >= w}) >= Len(s) => v >= w

\* the fraction q is scale times the median of s
IsMedianTimes(scale, q, s) ==
  q[2] > 0 /\ 2 * q[1] = scale * q[2] * (LowerMiddle(s) + UpperMiddle(s))

\* the fraction q is the mean of s
IsMean(q, s) == q[2] > 0 /\ q[1] * Len(s) = q[2] * Sum(s)

\* C5 as claimed: both helpers report the median of the sampled durations
\* (timer in milliseconds, benchmark_resample in seconds).
C5_EveryHelperReportsMedian ==
  /\ helper.name = "timer" => IsMedianTimes(1000, reported, samples)
  /\ (helper.name = "benchmark_resample" /\ helper.method \in Methods) =>
       IsMedianTimes(1, reported, samples)

\* C5, amended: timer of pinmem_nonblock.py reports the median of the sampled
\* durations (times 1000); benchmark_resample of resampling.py reports their
\* mean, the elapsed time over iters.
C5_TimerMedianResampleMean ==
  /\ helper.name = "timer" => IsMedianTimes(1000, reported, samples)
  /\ (helper.name = "benchmark_resample" /\ helper.method \in Methods) =>
       IsMean(reported, samples)

\* benchmark_resample on three samples whose median is 0 reports 1/3
C5_Witness ==
  /\ samples = <<0, 0, 1>>
  /\ helper.name = "benchmark_resample"
  /\ reported = <<1, 3>>

\* the scenario a bar stands for, by the text of its label
ScenarioOfLabel(name) ==
  CASE name = "pageable_tensor.to(device)" -> "pageable_to_device"
    [] name = "pinned_tensor.to(device)" -> "pinned_to_device"
    [] name = "pageable_tensor.pin_memory().to(device)" -> "pin_mem_to_device"
    [] name = "to(device)" -> "to_device"
    [] name = "to(device, non_blocking=True)" -> "to_device_nonblocking"
    [] name = "Blocking copy" -> "copy_blocking"
    [] name = "Non-blocking copy" -> "copy_non_blocking"
    [] name = "Blocking pin, non-blocking copy" -> "copy_pin_nb"
    [] name = "Non-blocking pin, non-blocking copy" -> "copy_pin_multithread_nb"

\* the scenario of a bar of the grouped chart, by its series and its tick
ScenarioOfGroup(series, tick) ==
  CASE series = "blocking" /\ tick = "pageable copy" -> "page_copy"
    [] series = "blocking" /\ tick = "pinned copy" -> "pinned_copy"
    [] series = "blocking" /\ tick = "pin and copy" -> "pin_and_copy"
    [] series = "non-blocking" /\ tick = "pageable copy" -> "page_copy_nb"
    [] series = "non-blocking" /\ tick = "pinned copy" -> "pinned_copy_nb"
    [] series = "non-blocking" /\ tick = "pin and copy" -> "pin_and_copy_nb"

\* the scenarios of the bars of the chart from left to right, one sequence per
\* series, and their values
BarScenarios ==
  IF chart.kind \in RatioCharts
    THEN << [j \in DOMAIN chart.labels |-> ScenarioOfLabel(chart.labels[j].name)] >>
    ELSE [s \in DOMAIN chart.series |->
            [j \in DOMAIN chart.ticks |->
               ScenarioOfGroup(chart.series[s].label, chart.ticks[j])]]
BarValues ==
  IF chart.kind \in RatioCharts
    THEN << chart.values >>
    ELSE [s \in DOMAIN chart.series |-> chart.series[s].values]

\* where a scenario stands in the order of the timer calls
TimedAt(n) == CHOOSE j \in DOMAIN timed : timed[j] = n

\* the bars follow the order in which their scenarios were timed
InTimedOrder(b) == \A j \in 1..(Len(b) - 1) : TimedAt(b[j]) < TimedAt(b[j + 1])

\* every bar has the value measured for its scenario
BarsShowTheirScenario ==
  \A s \in DOMAIN BarScenarios :
    /\ Len(BarValues[s]) = Len(BarScenarios[s])
    /\ \A j \in DOMAIN BarScenarios[s] : BarValues[s][j] = lat[BarScenarios[s][j]]

\* C6 as claimed: in every chart, the grouped one included, the bars are the
\* measured scenarios in the order in which they were timed.
C6_BarsInTimedOrder ==
  chart.kind # "none" =>
    /\ BarsShowTheirScenario
    /\ \A s \in DOMAIN BarScenarios : InTimedOrder(BarScenarios[s])

\* C6, amended: in the pin-memory, non-blocking and TensorDict charts the bars
\* are the scenarios in the order in which they were timed (pin_mem, which has
\* no bar, left out); in the grouped chart each series shows pageable copy,
\* pinned copy, pin and copy in that order although pin and copy was timed
\* first; in every chart each bar has the value measured for its scenario.
C6_BarsInDisplayOrder ==
  chart.kind # "none" =>
    /\ BarsShowTheirScenario
    /\ chart.kind \in RatioCharts =>
         /\ InTimedOrder(BarScenarios[1])
         /\ BarScenarios[1] = SelectSeq(timed, LAMBDA n : n # "pin_mem")
    /\ chart.kind = "grouped" =>
         /\ timed = GroupedOrder
         /\ BarScenarios[1] = <<"page_copy", "pinned_copy", "pin_and_copy">>
         /\ BarScenarios[2] = <<"page_copy_nb", "pinned_copy_nb", "pin_and_copy_nb">>
         /\ \A s \in 1..2 : ~InTimedOrder(BarScenarios[s])

\* a grouped chart whose three blocking bars differ
C6_Witness ==
  /\ chart.kind = "grouped"
  /\ chart.series[1].values = <<0, 500, 1000>>
  /\ lat["pin_and_copy"] = 1000

CheckPcs == {"unsync_read", "sync_read"}

\* C7 as claimed: an exception, once raised, has ended the run.
C7_EveryRaiseAborts == raised # <<>> => status = "aborted"

\* C7, amended: an exception raised by any statement other than the check of a
\* GPU->CPU loop ends the run at that statement, and no statement runs after
\* it; the AssertionError of a GPU->CPU check is caught by the except clause of
\* its loop, which prints the failed iteration, and the run goes on with the
\* statement after the loop.
C7_OnlyTheChecksAreCaught ==
  [][ /\ Len(raised') > Len(raised) =>
           LET e == Last(raised')
           IN IF e.at \in CheckPcs
                THEN /\ e.type = "AssertionError"
                     /\ status' = "running"
                     /\ pc' = (IF e.at = "unsync_read" THEN "sync_begin" ELSE "td_time")
                     /\ Len(out') = Len(out) + 1
                     /\ Last(out').i = i
                ELSE /\ status' = "aborted"
                     /\ pc' = pc /\ e.at = pc
      /\ status = "aborted" => UNCHANGED benchVars ]_vars

\* the check of the unsynchronized loop has failed and the synchronized loop runs
C7_Witness ==
  /\ status = "running"
  /\ pc = "sync_synchronize"
  /\ Len(raised) = 1 /\ raised[1].at = "unsync_read"

\* C8: when a timed copy function has returned, and when the Timer calls it
\* again, the device has completed every copy the function issued.
C8_ReturnedMeansTransferred ==
  opc \in {"returned", "call"} => inflight = 0

\* a non_blocking function has returned from its second call
C8_Witness ==
  /\ op = "copy_to_device_nonblocking"
  /\ opc = "returned"
  /\ idx = MaxTensors
  /\ runs = 1

AfterSyncLoop == {"td_time", "td_ratios", "td_chart", "end"}

C10_UnsyncReadCanBeIncomplete ==
  /\ (lastRead.loop = "unsync" /\ lastRead.seen = "incomplete") =>
       /\ lastRead.pending
       /\ lastRead.i \in 0..(NumIters - 1)
       /\ out = << [msg |-> "One test failed with non_blocking", i |-> lastRead.i] >>
       /\ raised = << [type |-> "AssertionError", at |-> "unsync_read", k |-> 1] >>
  /\ \A j \in DOMAIN out :
       out[j].msg = "One test failed with non_blocking" =>
         j = 1 /\ out[j].i \in 0..(NumIters - 1)
  /\ \A j \in DOMAIN out :
       out[j].msg = "No test failed with non_blocking" =>
         j = 1 /\ \A e \in DOMAIN raised : raised[e].at # "unsync_read"

\* the host has read cpu_tensor while its copy was in flight and seen incomplete
\* data, at the last iteration
C10_Witness ==
  /\ lastRead = [loop |-> "unsync", i |-> NumIters - 1, pending |-> TRUE,
                 seen |-> "incomplete"]
  /\ inflight > 0
  /\ out = << [msg |-> "One test failed with non_blocking", i |-> NumIters - 1] >>

----------------------------------------------------------------------------
(* C11 *)

\* the memory each module-level object is created in
Created(n) == IF n \in {"pinned_tensor", "tensors_pinned"} THEN "pinned" ELSE "pageable"

\* C11: timing a scenario leaves every module-level object as it was, so that
\* every object that is bound is still as its assignment created it, and the
\* object a scenario is about to read is bound and as created, whichever
\* scenarios were timed before it.
C11_TimingLeavesInputsUnchanged ==
  /\ [](/\ \A n \in ObjNames : objs[n] \in {"unbound", Created(n)}
        /\ (status = "running" /\ pc \in TimePcs)
             => objs[Reads(Order(pc)[k])] = Created(Reads(Order(pc)[k])))
  /\ [][(pc \in TimePcs) => (objs' = objs)]_vars

\* pageable_tensor.pin_memory() has been timed and pageable_tensor is about to
\* be read again
C11_Witness ==
  /\ status = "running"
  /\ pc = "pin_time"
  /\ k = 4
  /\ lat["pin_mem"] # Unset
  /\ objs["pageable_tensor"] = "pageable"

----------------------------------------------------------------------------
(* C12 *)

\* the bars of the chart as <<series, position>>
Bars == UNION {{<<s, j>> : j \in DOMAIN BarScenarios[s]} : s \in DOMAIN BarScenarios}

\* the bars that show scenario n
BarsOf(n) == {b \in Bars : BarScenarios[b[1]][b[2]] = n}

\* the number a bar is annotated with, in hundredths: the ratio in its label,
\* or the text over a bar of the grouped chart
BarNumber(b) == IF chart.kind \in RatioCharts THEN chart.labels[b[2]].x ELSE chart.texts[b[1]][b[2]]

\* C12 as claimed: every chart has exactly one bar per measured scenario, every
\* bar has the value measured for the scenario its label names, and every bar
\* is annotated with the ratio of its value to the value of the baseline, the
\* first bar.
C12_OneBarPerScenarioWithRatio ==
  chart.kind # "none" =>
    /\ \A n \in Range(timed) : Cardinality(BarsOf(n)) = 1
    /\ Cardinality(Bars) = Len(timed)
    /\ BarsShowTheirScenario
    /\ \A b \in Bars : IsRounded(BarNumber(b), BarValues[b[1]][b[2]], BarValues[b[1]][1])

\* C12, amended: every chart has exactly one bar per measured scenario except
\* pin_mem, which is timed and has no bar (its share of pin_mem_to_device is a
\* percentage in the third label of the pin-memory chart); every bar has the
\* value measured for the scenario its label, or its series and tick, names; in
\* the pin-memory, non-blocking and TensorDict charts the first label carries
\* the literal 1x and every other label the ratio of its bar's value to the
\* first bar's value with two decimals; the bars of the grouped chart carry no
\* ratio, each is annotated with its own value with two decimals.
C12_BarsOfEachChart ==
  chart.kind # "none" =>
    /\ \A n \in Range(timed) : Cardinality(BarsOf(n)) = (IF n = "pin_mem" THEN 0 ELSE 1)
    /\ Cardinality(Bars) = Cardinality(Range(timed) \ {"pin_mem"})
    /\ BarsShowTheirScenario
    /\ chart.kind \in RatioCharts =>
         /\ chart.labels[1].x = 100 /\ chart.labels[1].digits = 0
         /\ \A j \in 2..Len(chart.labels) :
              /\ chart.labels[j].digits = 2
              /\ IsRounded(chart.labels[j].x, chart.values[j], chart.values[1])
    /\ chart.kind = "pin" =>
         /\ "pin_mem" \in Range(timed)
         /\ IsRounded(chart.labels[3].pct, 100 * lat["pin_mem"], lat["pin_mem_to_device"])
    /\ chart.kind = "grouped" =>
         \A b \in Bars : BarNumber(b) = 100 * lat[BarScenarios[b[1]][b[2]]]

\* a pin-memory chart: four scenarios timed, three bars, the third twice the
\* first
C12_Witness ==
  /\ chart.kind = "pin"
  /\ Len(timed) = 4
  /\ Cardinality(Bars) = 3
  /\ chart.labels[3].x = 200

----------------------------------------------------------------------------
(* C14 *)

\* C14: when the bytes download_url_to_file has written differ from the
\* published file whose sha256 the caller passed, the digest check deletes the
\* file and raises RuntimeError, and while that RuntimeError stands there is no
\* file at the destination path.
C14_MismatchDeletesAndRaises ==
  /\ [][(dl.at = "digest" /\ files[dl.dst] # Genuine)
          => (dstatus' = "aborted" /\ derror' = "RuntimeError" /\ files'[dl.dst] = Absent)]_vars
  /\ [](derror = "RuntimeError" => (dl.at = "raised" /\ files[dl.dst] = Absent))

\* a download that wrote one wrong buffer and failed the digest check
C14_Witness ==
  /\ derror = "RuntimeError"
  /\ dl.sum = <<"bad">>
  /\ files[dl.dst] = Absent
  /\ Last(history) = [dst |-> dl.dst, result |-> "mismatch"]

----------------------------------------------------------------------------
(* C15 *)

\* C15: a call that finds a file at the destination path returns that path
\* without calling urlopen, without writing the file and without hashing
\* anything; so of two calls for the same path, the later one downloads nothing
\* when the earlier one succeeded.
C15_ExistingFileIsKept ==
  /\ [][(dl.at = "exists" /\ files[dl.dst] # Absent)
          => /\ files' = files
             /\ opened' = opened
             /\ dl'.at = "returned" /\ dl'.dst = dl.dst /\ dl'.sum = <<>>
             /\ dstatus' = "running"]_vars
  /\ [](\A j, n \in DOMAIN history :
          (j < n /\ history[j].dst = history[n].dst /\ history[j].result = "downloaded")
            => history[n].result = "skipped")

\* a second call for a path after a successful download to it
C15_Witness ==
  \E j, n \in DOMAIN history :
    /\ j < n
    /\ history[j] = [dst |-> "_data/data.zip", result |-> "downloaded"]
    /\ history[n] = [dst |-> "_data/data.zip", result |-> "skipped"]
    /\ Len(opened) = 1

----------------------------------------------------------------------------
(* C16 *)

\* the conditions of main as the claim states them
EnvUnset == ~FILES_TO_RUN.set
Mentions(word) == word \in Range(FILES_TO_RUN.words)
Fetched(fn) == fn \in Range(called)

\* what the claim says main fetches
MainFetches ==
  /\ Fetched("download_hymenoptera_data")
  /\ Fetched("download_nlp_data")
  /\ Fetched("download_dcgan_data") <=> (EnvUnset \/ Mentions("dcgan_faces_tutorial"))
  /\ Fetched("download_lenet_mnist") <=> (EnvUnset \/ Mentions("fgsm_tutorial"))

----------------------------------------------------------------------------
(* C17 *)

\* the earliest epoch (counted from 1) whose validation accuracy no epoch exceeds
BestEpoch ==
  CHOOSE j \in DOMAIN accs :
    /\ \A n \in DOMAIN accs : ~Gt(accs[n].acc, accs[j].acc)
    /\ \A n \in 1..(j - 1) : Gt(accs[j].acc, accs[n].acc)

\* C17: what train_model returns after at least one epoch is a deep copy, and
\* its parameters are those the model had at the end of the validation phase
\* of the earliest epoch with the highest validation accuracy, whatever the
\* training of later epochs did to the model.
C17_ReturnsSnapshotOfBest ==
  (phase = "returned" /\ accs # <<>>) =>
    /\ result.copy
    /\ Wts(result) = accs[BestEpoch].wts

----------------------------------------------------------------------------
(* C20 *)

RECURSIVE TenTo(_)
TenTo(n) == IF n = 0 THEN 1 ELSE 10 * TenTo(n - 1)

\* the learning rate built for epoch e
LrAt(e) == lrlog[e + 1]

\* C20: the learning rate built for epoch e is init_lr * 0.1^(e div
\* lr_decay_epoch), in exact arithmetic: 1 / (1000 * 10^(e div lr_decay_epoch))
\* for the default init_lr. It is the same for two epochs of the same block of
\* lr_decay_epoch epochs, a tenth of the rate of the epoch before at every
\* epoch after the first that is a multiple of lr_decay_epoch, never higher
\* than the rate of an earlier epoch, and it is the rate of the optimizer of
\* that epoch; 'LR is set to' has been printed once for each epoch so far that
\* is a multiple of lr_decay_epoch, epoch 0 included, and for no other.
C20_LrSchedule ==
  LET d == lr_decay_epoch
      built == 0..(Len(lrlog) - 1)
  IN /\ \A e \in built :
          /\ LrAt(e)[1] * InitLrInverse * TenTo(e \div d) = LrAt(e)[2]
          /\ \A f \in built : (e \div d = f \div d) => LrAt(e) = LrAt(f)
          /\ \A f \in built : f < e => ~Gt(LrAt(e), LrAt(f))
          /\ (e > 0 /\ \E m \in 1..e : e = m * d) =>
               10 * LrAt(e)[1] * LrAt(e - 1)[2] = LrAt(e - 1)[1] * LrAt(e)[2]
     /\ lrlog # <<>> => optimizer.lr = Last(lrlog)
     /\ Range(printed) = {e \in built : \E m \in 0..e : e = m * d}
     /\ \A j \in 1..(Len(printed) - 1) : printed[j] < printed[j + 1]

\* three epochs with lr_decay_epoch = 2: 0.001, 0.001, 0.0001, printed at 0 and 2
C20_Witness ==
  /\ lr_decay_epoch = 2
  /\ lrlog = << <<1, 1000>>, <<1, 1000>>, <<1, 10000>> >>
  /\ printed = <<0, 2>>

----------------------------------------------------------------------------
(* C19 *)

\* C19: the target mask create_mask returns for a target of sz >= 1 tokens is
\* sz by sz, and its entry (row, col) is 0.0 when col <= row and -inf when
\* col > row: a position may attend to the positions at or before it and to
\* no later one.
C19_MaskIsCausal ==
  masks # NoMasks =>
    LET sz == Len(tgt)
    IN /\ sz >= 1
       /\ DOMAIN masks.tgt_mask = (0..(sz - 1)) \X (0..(sz - 1))
       /\ \A row, col \in 0..(sz - 1) :
            masks.tgt_mask[<<row, col>>] = (IF col <= row THEN "0.0" ELSE "-inf")

\* the mask of three target tokens: the last position sees the first, the
\* first does not see the last
C19_Witness ==
  /\ masks # NoMasks
  /\ Len(tgt) = 3
  /\ masks.tgt_mask[<<2, 0>>] = "0.0"
  /\ masks.tgt_mask[<<0, 2>>] = "-inf"

====
